---- MODULE Spec2Model ----
(***************************************************************************)
(* A model of the NLP core of TextTrinity (src/server/nlp.ts): the         *)
(* extractive summarizer's selection stage, the sentence clusterer, the    *)
(* keyword extractor and the algorithm recommender.                        *)
(*                                                                         *)
(* Numbers.  The program computes with IEEE doubles.  Sentence scores are  *)
(* held in thousandths (0.8 is 800).  NaN is the one non-number a score    *)
(* can be: it arises where the code reads a word-keyed plain object at a   *)
(* key that Object.prototype provides ("constructor", "__proto__"), and it *)
(* is represented by the value NaN below, outside every numeric range.     *)
(***************************************************************************)
EXTENDS Integers, Sequences, FiniteSets, TLC

(***************************************************************************)
(* Bounds of the model.                                                    *)
(***************************************************************************)
\* the longest text the summarizer is run on, in sentences
MaxSentences == 5
\* the longest text with a NaN-scored sentence (its ranking is any order)
MaxNaNSentences == 3

(***************************************************************************)
(* Values.                                                                 *)
(***************************************************************************)
\* the representation of the double NaN (every number of the model is >= 0)
NaN == -1

\* src/server/nlp.ts:404, the diversity override threshold 0.8, in thousandths
OverrideThreshold == 800

\* Names every plain object inherits from Object.prototype and that
\* tokenizeWords can produce (lower case, word characters only).
InheritedKeys == {"constructor", "__proto__"}

Max(a, b) == IF a >= b THEN a ELSE b

\* Math.ceil(n / d) for n >= 0, d > 0
CeilDiv(n, d) == (n + d - 1) \div d

Range(s) == {s[i] : i \in 1..Len(s)}

\* JavaScript's a < b and a >= b on doubles: false when either side is NaN
NumLt(a, b) == a # NaN /\ b # NaN /\ a < b
NumGeq(a, b) == a # NaN /\ b # NaN /\ a >= b

VARIABLES
  \* ---- enhancedSummarize ----
  pc,                \* where the call is
  sentences,         \* tokenizeSentences(text): a sequence of word sequences
  weights,           \* per sentence, the numeric outcome of the scoring steps
  length,            \* request.length
  style,             \* request.style
  numSentences,      \* the target number of sentences
  score,             \* phraseBoostScores: the final score per sentence
  cluster,           \* similarityClusters
  rankedSentences,   \* sentence indices, by descending score
  cursor,            \* position of the for-of loop in rankedSentences
  selectedSentences, \* sentence indices in the order they were selected
  selectedClusters,  \* set of cluster ids already taken from
  summary,           \* the rendered summary: one item per selected sentence
  \* ---- clusterSimilarSentences, step by step ----
  cpc,               \* where the call is
  csentences,        \* the argument: a sequence of word sequences
  clusters,          \* the clusters array
  clusterCount,      \* the next cluster id
  ci,                \* the outer loop's i (1-based)
  cj,                \* the inner loop's j (1-based)
  \* ---- extractKeywords ----
  kpc,               \* where the call is
  kwText,            \* request.text: words and the gaps between them
  kwCount,           \* request.count
  kwMethod,          \* request.method
  keywords,          \* the keywords of the response
  \* ---- recommendAlgorithm ----
  rpc,               \* where the call is
  request,           \* the request
  compatibleAlgorithms, \* names of the profiles that serve the task type
  scoredAlgorithms,  \* name and score (in halves) per compatible profile
  recommendation,    \* the response
  \* ---- one call of a pure function ----
  fpc,               \* where the call is
  fname,             \* the function called
  farg,              \* its argument
  fresult            \* what it returned

sumVars == <<pc, sentences, weights, length, style, numSentences, score, cluster,
             rankedSentences, cursor, selectedSentences, selectedClusters, summary>>

cluVars == <<cpc, csentences, clusters, clusterCount, ci, cj>>

kwVars == <<kpc, kwText, kwCount, kwMethod, keywords>>

recVars == <<rpc, request, compatibleAlgorithms, scoredAlgorithms, recommendation>>

funVars == <<fpc, fname, farg, fresult>>

vars == <<sumVars, cluVars, kwVars, recVars, funVars>>

(***************************************************************************)
(* Sentence similarity and clustering.                                     *)
(***************************************************************************)
\* calculateSentenceSimilarity's word-frequency vector of one sentence:
\*   vec[word] = (vec[word] || 0) + 1
\* For "__proto__" the read yields Object.prototype and the write of the
\* resulting string is ignored: the vector gets no such key.  For
\* "constructor" the read yields the function Object, and the entry becomes
\* a string, which every later product turns into NaN.
WordVector(sent) ==
  LET keys == Range(sent) \ {"__proto__"}
  IN [w \in keys |->
        IF w = "constructor" THEN NaN
        ELSE Cardinality({i \in 1..Len(sent) : sent[i] = w})]

RECURSIVE SumOver(_, _)
SumOver(f, S) ==
  IF S = {} THEN 0
  ELSE LET x == CHOOSE y \in S : TRUE
       IN f[x] + SumOver(f, S \ {x})

\* Whether cosineSimilarity(vecA, vecB) involves a non-number: vecB[key] is
\* truthy for every key of vecA that is inherited, so the dot product and
\* magnitudeA are NaN as soon as vecA holds "constructor"; magnitudeB is NaN
\* when vecB holds it.
HasNaN(vec) == \E w \in DOMAIN vec : vec[w] = NaN

DotProduct(vecA, vecB) ==
  LET common == DOMAIN vecA \cap DOMAIN vecB
  IN SumOver([w \in common |-> vecA[w] * vecB[w]], common)

SquaredMagnitude(vec) ==
  SumOver([w \in DOMAIN vec |-> vec[w] * vec[w]], DOMAIN vec)

\* cosineSimilarity, as the class of its result: "zero" (an early return 0),
\* "nan", or the ratio dot / (sqrt(magA) * sqrt(magB)) given by its parts.
cosineSimilarity(vecA, vecB) ==
  LET nanA == HasNaN(vecA)
      nanB == HasNaN(vecB)
      magA == IF nanA THEN NaN ELSE SquaredMagnitude(vecA)
      magB == IF nanB THEN NaN ELSE SquaredMagnitude(vecB)
  IN IF magA = 0 \/ magB = 0
       THEN [kind |-> "zero", dot |-> 0, magA |-> 1, magB |-> 1]
     ELSE IF nanA \/ nanB
       THEN [kind |-> "nan", dot |-> 0, magA |-> 1, magB |-> 1]
     ELSE [kind |-> "ratio", dot |-> DotProduct(vecA, vecB),
           magA |-> magA, magB |-> magB]

calculateSentenceSimilarity(sentA, sentB) ==
  cosineSimilarity(WordVector(sentA), WordVector(sentB))

\* the threshold at 0.8: 25 * dot^2 > 16 * a * b
AboveThresholdHigh(sim) ==
  sim.kind = "ratio" /\ 25 * sim.dot * sim.dot > 16 * sim.magA * sim.magB

\* similarity > 0.5 (src/server/nlp.ts:561).  dot / (sqrt(a) * sqrt(b)) > 1/2
\* is decided as 4 * dot^2 > a * b; on doubles the two agree for all vectors
\* of fewer than six words.
AboveThreshold(sim) ==
  sim.kind = "ratio" /\ 4 * sim.dot * sim.dot > sim.magA * sim.magB

\* The inner loop of clusterSimilarSentences for opener i, from j on.
RECURSIVE JoinCluster(_, _, _, _, _)
JoinCluster(sents, cl, i, j, count) ==
  IF j > Len(sents) THEN cl
  ELSE IF cl[j] = -1
          /\ AboveThreshold(calculateSentenceSimilarity(sents[i], sents[j]))
       THEN JoinCluster(sents, [cl EXCEPT ![j] = count], i, j + 1, count)
       ELSE JoinCluster(sents, cl, i, j + 1, count)

\* The outer loop of clusterSimilarSentences, from i on.
RECURSIVE ClusterLoop(_, _, _, _)
ClusterLoop(sents, cl, i, count) ==
  IF i > Len(sents) THEN cl
  ELSE IF cl[i] = -1
       THEN ClusterLoop(sents,
                        JoinCluster(sents, [cl EXCEPT ![i] = count], i, i + 1, count),
                        i + 1, count + 1)
       ELSE ClusterLoop(sents, cl, i + 1, count)

clusterSimilarSentences(sents) ==
  ClusterLoop(sents, [i \in 1..Len(sents) |-> -1], 1, 0)

(***************************************************************************)
(* clusterSimilarSentences, one loop step per action.                      *)
(***************************************************************************)
\* Sentences the clusterer is run on: "cat dog" and "cat bird" have
\* similarity exactly 0.5; the last two hold inherited keys.
ClusterSentences ==
  {<<"cat">>, <<"dog">>, <<"cat", "dog">>, <<"cat", "bird">>,
   <<"constructor", "cat">>, <<"__proto__">>}

\* the longest argument of clusterSimilarSentences, in sentences (the
\* scenario apart)
MaxClusterSentences == 4

\* the words of "I love cats.", "I love cats very much.", "The stock market
\* fell."
ClusterScenario ==
  <<<<"i", "love", "cats">>, <<"i", "love", "cats", "very", "much">>,
    <<"the", "stock", "market", "fell">>>>

CluIdle ==
  /\ cpc = "idle"
  /\ csentences = <<>>
  /\ clusters = <<>>
  /\ clusterCount = 0
  /\ ci = 0
  /\ cj = 0

\* lines 545-546: Array(sentences.length).fill(-1), clusterCount = 0
CluInit ==
  /\ cpc = "outer"
  /\ csentences \in {ClusterScenario}
                     \cup UNION {[1..n -> ClusterSentences] : n \in 0..MaxClusterSentences}
  /\ clusters = [i \in 1..Len(csentences) |-> -1]
  /\ clusterCount = 0
  /\ ci = 1
  /\ cj = 0

\* the opener's own assignment left out: it stays at -1
ClusterOpenUnassigned ==
  /\ cpc = "outer"
  /\ ci <= Len(csentences)
  /\ clusters[ci] = -1
  /\ cj' = ci + 1
  /\ cpc' = "inner"
  /\ UNCHANGED <<csentences, clusters, clusterCount, ci>>
  /\ UNCHANGED <<sumVars, kwVars, recVars, funVars>>

\* lines 550-552: sentence i is unassigned and starts a new cluster
ClusterOpen ==
  /\ cpc = "outer"
  /\ ci <= Len(csentences)
  /\ clusters[ci] = -1
  /\ clusters' = [clusters EXCEPT ![ci] = clusterCount]
  /\ cj' = ci + 1
  /\ cpc' = "inner"
  /\ UNCHANGED <<csentences, clusterCount, ci>>
  /\ UNCHANGED <<sumVars, kwVars, recVars, funVars>>

\* line 550: sentence i is assigned already
ClusterPass ==
  /\ cpc = "outer"
  /\ ci <= Len(csentences)
  /\ clusters[ci] # -1
  /\ ci' = ci + 1
  /\ UNCHANGED <<cpc, csentences, clusters, clusterCount, cj>>
  /\ UNCHANGED <<sumVars, kwVars, recVars, funVars>>

\* sentence j compared with the sentence before it instead of the opener
ClusterJoinChained ==
  /\ cpc = "inner"
  /\ cj <= Len(csentences)
  /\ clusters[cj] = -1
  /\ AboveThreshold(calculateSentenceSimilarity(csentences[cj - 1], csentences[cj]))
  /\ clusters' = [clusters EXCEPT ![cj] = clusterCount]
  /\ cj' = cj + 1
  /\ UNCHANGED <<cpc, csentences, clusterCount, ci>>
  /\ UNCHANGED <<sumVars, kwVars, recVars, funVars>>

\* lines 556-563: sentence j is unassigned and similar to the opener i
ClusterJoin ==
  /\ cpc = "inner"
  /\ cj <= Len(csentences)
  /\ clusters[cj] = -1
  /\ AboveThreshold(calculateSentenceSimilarity(csentences[ci], csentences[cj]))
  /\ clusters' = [clusters EXCEPT ![cj] = clusterCount]
  /\ cj' = cj + 1
  /\ UNCHANGED <<cpc, csentences, clusterCount, ci>>
  /\ UNCHANGED <<sumVars, kwVars, recVars, funVars>>

\* lines 556-563: sentence j is unassigned and not similar to the opener i
ClusterLeave ==
  /\ cpc = "inner"
  /\ cj <= Len(csentences)
  /\ clusters[cj] = -1
  /\ ~AboveThreshold(calculateSentenceSimilarity(csentences[ci], csentences[cj]))
  /\ cj' = cj + 1
  /\ UNCHANGED <<cpc, csentences, clusters, clusterCount, ci>>
  /\ UNCHANGED <<sumVars, kwVars, recVars, funVars>>

\* sentence j is assigned already and is compared with the opener all the
\* same, and moved if similar
ClusterSkipCompared ==
  /\ cpc = "inner"
  /\ cj <= Len(csentences)
  /\ clusters[cj] # -1
  /\ clusters' =
       IF AboveThreshold(calculateSentenceSimilarity(csentences[ci], csentences[cj]))
         THEN [clusters EXCEPT ![cj] = clusterCount]
       ELSE clusters
  /\ cj' = cj + 1
  /\ UNCHANGED <<cpc, csentences, clusterCount, ci>>
  /\ UNCHANGED <<sumVars, kwVars, recVars, funVars>>

\* line 556: sentence j is assigned already and is not compared
ClusterSkip ==
  /\ cpc = "inner"
  /\ cj <= Len(csentences)
  /\ clusters[cj] # -1
  /\ cj' = cj + 1
  /\ UNCHANGED <<cpc, csentences, clusters, clusterCount, ci>>
  /\ UNCHANGED <<sumVars, kwVars, recVars, funVars>>

\* line 567: the inner loop is over, clusterCount++
ClusterClose ==
  /\ cpc = "inner"
  /\ cj > Len(csentences)
  /\ clusterCount' = clusterCount + 1
  /\ ci' = ci + 1
  /\ cpc' = "outer"
  /\ UNCHANGED <<csentences, clusters, cj>>
  /\ UNCHANGED <<sumVars, kwVars, recVars, funVars>>

\* line 571: return clusters
ClusterReturn ==
  /\ cpc = "outer"
  /\ ci > Len(csentences)
  /\ cpc' = "done"
  /\ UNCHANGED <<csentences, clusters, clusterCount, ci, cj>>
  /\ UNCHANGED <<sumVars, kwVars, recVars, funVars>>

CluNext ==
  \/ ClusterOpen
  \/ ClusterPass
  \/ ClusterJoin
  \/ ClusterLeave
  \/ ClusterSkip
  \/ ClusterClose
  \/ ClusterReturn

(***************************************************************************)
(* enhancedSummarize: ranking, diversity selection, backfill, re-ordering. *)
(***************************************************************************)
\* Sentences the summarizer is run on.  The third holds a key inherited from
\* Object.prototype: scoreSentences reads keywords["__proto__"], an object,
\* and its score becomes NaN.
SumSentences == {<<"cat">>, <<"dog">>, <<"__proto__", "cat">>}

\* Representative final scores, in thousandths, on both sides of 0.8.
ScoreValues == {500, 800}

Lengths == {"short", "medium", "long"}
Styles == {"informative", "bullet_points", "simplified", "absent"}

\* src/server/nlp.ts:304, lengthRatio in hundredths
lengthRatio(len) ==
  IF len = "short" THEN 15 ELSE IF len = "medium" THEN 30 ELSE 45

\* src/server/nlp.ts:307, Math.max(1, Math.ceil(sentences.length * lengthRatio))
TargetCount(n, len) == Max(1, CeilDiv(n * lengthRatio(len), 100))

\* scoreSentences and the three multiplicative adjustments: a sentence with
\* the token "__proto__" adds an object to its score, which makes it NaN;
\* every other sentence gets a number.
FinalScore(sent, w) == IF "__proto__" \in Range(sent) THEN NaN ELSE w

HasNaNScore(sc) == \E i \in DOMAIN sc : sc[i] = NaN

Orderings(n) ==
  {r \in [1..n -> 1..n] : \A p, q \in 1..n : p # q => r[p] # r[q]}

\* [...scoredSentences].sort((a, b) => b.score - a.score): a stable sort by
\* descending score.  Against a NaN score the comparator returns NaN, which
\* the sort reads as 0.  If the numeric scores are all equal, every comparison
\* is 0 and the stable sort keeps the text order; if they differ, the
\* comparator is not consistent and the order is implementation-defined.
ConsistentComparator(sc) ==
  ~HasNaNScore(sc)
    \/ \A i, j \in DOMAIN sc : (sc[i] # NaN /\ sc[j] # NaN) => sc[i] = sc[j]

SortByScore(sc) ==
  LET n == Len(sc)
      before(j, i) == NumLt(sc[i], sc[j])
                        \/ (~NumLt(sc[j], sc[i]) /\ j < i)
      pos(i) == 1 + Cardinality({j \in 1..n : before(j, i)})
  IN IF ConsistentComparator(sc)
       THEN {[p \in 1..n |-> CHOOSE i \in 1..n : pos(i) = p]}
     ELSE Orderings(n)

\* the re-ordering left out: the sentences stay in selection order
SortByIndexOmitted(sel) == sel

\* sort((a, b) => a.originalIndex - b.originalIndex) on distinct indices
SortByIndex(sel) ==
  LET n == Len(sel)
      pos(x) == 1 + Cardinality({y \in Range(sel) : y < x})
  IN [p \in 1..n |-> CHOOSE x \in Range(sel) : pos(x) = p]

\* the test left out: every text goes on
NoTextProvidedNever(t) == FALSE

\* line 277, !request.text.trim(): the blank text, which has no sentence
NoTextProvided(t) == Len(t) = 0

\* lines 277-279: the blank text is refused
SumReject ==
  /\ pc = "start"
  /\ NoTextProvided(sentences)
  /\ pc' = "failed"
  /\ UNCHANGED <<sentences, weights, length, style, numSentences, score, cluster,
                 rankedSentences, cursor, selectedSentences, selectedClusters,
                 summary>>
  /\ UNCHANGED <<cluVars, kwVars, recVars, funVars>>

\* lines 300-392: sentences, target count, clusters, scores, ranking
Rank ==
  /\ pc = "start"
  /\ ~NoTextProvided(sentences)
  /\ numSentences' = TargetCount(Len(sentences), length)
  /\ cluster' = clusterSimilarSentences(sentences)
  /\ score' = [i \in 1..Len(sentences) |-> FinalScore(sentences[i], weights[i])]
  /\ rankedSentences' \in SortByScore(score')
  /\ cursor' = 1
  /\ selectedSentences' = <<>>
  /\ selectedClusters' = {}
  /\ pc' = "diversity"
  /\ UNCHANGED <<sentences, weights, length, style, summary>>
  /\ UNCHANGED <<cluVars, kwVars, recVars, funVars>>

\* the cluster test alone, without the test of the score
SkipsForCluster(s) == cluster[s] \in selectedClusters

\* line 404: selectedClusters.has(sentence.cluster) && sentence.score < 0.8
SkipsForDiversity(s) ==
  cluster[s] \in selectedClusters /\ NumLt(score[s], OverrideThreshold)

\* line 400: enough sentences, leave the for-of loop
DiversityBreak ==
  /\ pc = "diversity"
  /\ cursor <= Len(rankedSentences)
  /\ Len(selectedSentences) >= numSentences
  /\ pc' = "backfill"
  /\ UNCHANGED <<sentences, weights, length, style, numSentences, score, cluster,
                 rankedSentences, cursor, selectedSentences, selectedClusters,
                 summary>>
  /\ UNCHANGED <<cluVars, kwVars, recVars, funVars>>

\* lines 404-406: continue
DiversitySkip ==
  /\ pc = "diversity"
  /\ cursor <= Len(rankedSentences)
  /\ Len(selectedSentences) < numSentences
  /\ SkipsForDiversity(rankedSentences[cursor])
  /\ cursor' = cursor + 1
  /\ UNCHANGED <<pc, sentences, weights, length, style, numSentences, score,
                 cluster, rankedSentences, selectedSentences, selectedClusters,
                 summary>>
  /\ UNCHANGED <<cluVars, kwVars, recVars, funVars>>

\* lines 408-409: push and record the cluster
DiversitySelect ==
  /\ pc = "diversity"
  /\ cursor <= Len(rankedSentences)
  /\ Len(selectedSentences) < numSentences
  /\ ~SkipsForDiversity(rankedSentences[cursor])
  /\ selectedSentences' = Append(selectedSentences, rankedSentences[cursor])
  /\ selectedClusters' = selectedClusters \cup {cluster[rankedSentences[cursor]]}
  /\ cursor' = cursor + 1
  /\ UNCHANGED <<pc, sentences, weights, length, style, numSentences, score,
                 cluster, rankedSentences, summary>>
  /\ UNCHANGED <<cluVars, kwVars, recVars, funVars>>

\* the for-of loop has visited every ranked sentence
DiversityEnd ==
  /\ pc = "diversity"
  /\ cursor > Len(rankedSentences)
  /\ pc' = "backfill"
  /\ UNCHANGED <<sentences, weights, length, style, numSentences, score, cluster,
                 rankedSentences, cursor, selectedSentences, selectedClusters,
                 summary>>
  /\ UNCHANGED <<cluVars, kwVars, recVars, funVars>>

\* the while condition off by one: the loop stops one sentence short
BackfillConditionShort ==
  /\ Len(selectedSentences) + 1 < numSentences
  /\ Len(selectedSentences) < Len(rankedSentences)

\* line 413, the while condition
BackfillCondition ==
  /\ Len(selectedSentences) < numSentences
  /\ Len(selectedSentences) < Len(rankedSentences)

\* line 414: rankedSentences[selectedSentences.length] (0-based)
nextSentence == rankedSentences[Len(selectedSentences) + 1]

\* lines 415-417, the sentence is not selected yet: push it
BackfillPush ==
  /\ pc = "backfill"
  /\ BackfillCondition
  /\ nextSentence \notin Range(selectedSentences)
  /\ selectedSentences' = Append(selectedSentences, nextSentence)
  /\ UNCHANGED <<pc, sentences, weights, length, style, numSentences, score,
                 cluster, rankedSentences, cursor, selectedClusters, summary>>
  /\ UNCHANGED <<cluVars, kwVars, recVars, funVars>>

\* lines 415-417, the sentence is selected already: the body does nothing and
\* the loop tests the same condition on the same state again
BackfillSpin ==
  /\ pc = "backfill"
  /\ BackfillCondition
  /\ nextSentence \in Range(selectedSentences)
  /\ UNCHANGED <<sumVars, cluVars, kwVars, recVars, funVars>>

\* line 413: the while condition is false
BackfillExit ==
  /\ pc = "backfill"
  /\ ~BackfillCondition
  /\ pc' = "order"
  /\ UNCHANGED <<sentences, weights, length, style, numSentences, score, cluster,
                 rankedSentences, cursor, selectedSentences, selectedClusters,
                 summary>>
  /\ UNCHANGED <<cluVars, kwVars, recVars, funVars>>

\* line 421: selectedSentences.sort(...) sorts the array in place
Order ==
  /\ pc = "order"
  /\ selectedSentences' = SortByIndex(selectedSentences)
  /\ pc' = "format"
  /\ UNCHANGED <<sentences, weights, length, style, numSentences, score, cluster,
                 rankedSentences, cursor, selectedClusters, summary>>
  /\ UNCHANGED <<cluVars, kwVars, recVars, funVars>>

\* lines 424-447: how the sentence at 0-based position i is rendered
Rendering(st, i) ==
  IF st = "bullet_points" THEN "bullet"
  ELSE IF st = "simplified" THEN "simplified"
  ELSE IF i % 2 = 1 THEN "paraphrased" ELSE "verbatim"

\* lines 424-449: render the ordered sentences and return
Format ==
  /\ pc = "format"
  /\ summary' = [p \in 1..Len(selectedSentences) |->
                   [index |-> selectedSentences[p],
                    form |-> Rendering(style, p - 1)]]
  /\ pc' = "done"
  /\ UNCHANGED <<sentences, weights, length, style, numSentences, score, cluster,
                 rankedSentences, cursor, selectedSentences, selectedClusters>>
  /\ UNCHANGED <<cluVars, kwVars, recVars, funVars>>

\* Texts of up to MaxSentences sentences, the blank text of none among
\* them; a text with a NaN-scored sentence has at most MaxNaNSentences.  A
\* NaN-scored sentence has no numeric weight.
SumTexts ==
  UNION {[1..n -> SumSentences] : n \in 0..MaxSentences}

NaNSentences(t) == {i \in 1..Len(t) : "__proto__" \in Range(t[i])}

\* the summarizer's variables while another operation is modelled
SumIdle ==
  /\ pc = "idle"
  /\ sentences = <<>>
  /\ weights = <<>>
  /\ length = "short"
  /\ style = "absent"
  /\ numSentences = 0
  /\ score = <<>>
  /\ cluster = <<>>
  /\ rankedSentences = <<>>
  /\ cursor = 0
  /\ selectedSentences = <<>>
  /\ selectedClusters = {}
  /\ summary = <<>>

SumInit ==
  /\ pc = "start"
  /\ sentences \in {t \in SumTexts : NaNSentences(t) # {} => Len(t) <= MaxNaNSentences}
  /\ weights \in {w \in [1..Len(sentences) -> ScoreValues \cup {0}] :
                    \A i \in 1..Len(sentences) :
                      (w[i] = 0) <=> (i \in NaNSentences(sentences))}
  /\ length \in Lengths
  /\ style \in Styles
  /\ numSentences = 0
  /\ score = <<>>
  /\ cluster = <<>>
  /\ rankedSentences = <<>>
  /\ cursor = 0
  /\ selectedSentences = <<>>
  /\ selectedClusters = {}
  /\ summary = <<>>

SumNext ==
  \/ SumReject
  \/ Rank
  \/ DiversityBreak
  \/ DiversitySkip
  \/ DiversitySelect
  \/ DiversityEnd
  \/ BackfillPush
  \/ BackfillSpin
  \/ BackfillExit
  \/ Order
  \/ Format

(***************************************************************************)
(* The keyword extractor: extractKeywords, lines 1065-1266, with the       *)
(* frequency engine and the phrase extractor it calls, lines 58-125.       *)
(*                                                                         *)
(* A text is a sequence of words, w, and between consecutive words a gap,  *)
(* g: a space, a sentence boundary or a paragraph boundary (a blank line). *)
(* The text of no words stands for the blank text.  A keyword is a         *)
(* sequence of words, one for a term and two or three for a phrase.        *)
(* Keyword scores are held in ten-thousandths, rounded down.               *)
(***************************************************************************)
\* the longest text the extractor is run on, in words (ExtraTexts apart)
MaxWords == 3
\* the longest text with a NaN-scored term (its ranking may be any order)
MaxNaNWords == 2
\* the largest request.count
MaxCount == 3

\* one, in the unit of the keyword scores
KScale == 10000

\* lines 21-35 (an excerpt of the list)
STOPWORDS == {"the"}

KwWords == {"data", "mining", "the", "constructor"}

Gaps == {"space", "sentence", "paragraph"}

Methods == {"standard_tfidf", "enhanced_tfidf", "bert_based"}

\* "data science data analysis data mining"
ScenarioText ==
  [w |-> <<"data", "science", "data", "analysis", "data", "mining">>,
   g |-> <<"space", "space", "space", "space", "space">>]

\* "data mining. data mining. data mining."
PhraseText ==
  [w |-> <<"data", "mining", "data", "mining", "data", "mining">>,
   g |-> <<"space", "sentence", "space", "sentence", "space">>]

\* longer texts: one of many terms, one of repeated phrases, and "data
\* mining data mining"
ExtraTexts ==
  {ScenarioText, PhraseText,
   [w |-> <<"data", "mining", "data", "mining">>, g |-> <<"space", "space", "space">>]}

\* log10 of 1..8, in ten-thousandths
Log10Table == <<0, 3010, 4771, 6021, 6990, 7782, 8451, 9031>>

\* JavaScript's a * b and a / b on doubles
Times(a, b) == IF a = NaN \/ b = NaN THEN NaN ELSE (a * b) \div KScale
Divide(a, b) == IF a = NaN \/ b = NaN THEN NaN ELSE (a * KScale) \div b

\* the least of the scores in place of the greatest
MathMin(sc) ==
  IF \E i \in DOMAIN sc : sc[i] = NaN THEN NaN
  ELSE CHOOSE m \in Range(sc) : \A x \in Range(sc) : m <= x

\* Math.max(...scores) of a non-empty list: NaN if any score is
MathMax(sc) ==
  IF \E i \in DOMAIN sc : sc[i] = NaN THEN NaN
  ELSE CHOOSE m \in Range(sc) : \A x \in Range(sc) : x <= m

\* the pieces of text t between its gaps of the given kinds
SplitAt(t, kinds) ==
  LET n == Len(t.w)
      starts == {1} \cup {j + 1 : j \in {i \in 1..(n - 1) : t.g[i] \in kinds}}
      first(k) == CHOOSE s \in starts : Cardinality({x \in starts : x < s}) = k - 1
      last(k) == IF k = Cardinality(starts) THEN n ELSE first(k + 1) - 1
  IN IF n = 0 THEN <<>>
     ELSE [k \in 1..Cardinality(starts) |->
             [w |-> SubSeq(t.w, first(k), last(k)),
              g |-> SubSeq(t.g, first(k), last(k) - 1)]]

\* lines 38-47: a paragraph boundary ends a sentence too
tokenizeSentences(t) == SplitAt(t, {"sentence", "paragraph"})

\* lines 50-55
tokenizeWords(t) == t.w

\* lines 1090-1093: the paragraphs if there are several, else the sentences
Documents(t) ==
  LET paragraphs == SplitAt(t, {"paragraph"})
  IN IF Len(paragraphs) > 1 THEN paragraphs ELSE tokenizeSentences(t)

\* !STOPWORDS.has(w) && w.length > 2 (every word of the model is longer)
IsTerm(w) == w \notin STOPWORDS

\* the distinct elements of a sequence, in the order of their first
\* occurrence: the key order of an object filled in one pass
FirstSeen(s) ==
  LET idx == {i \in 1..Len(s) : \A j \in 1..(i - 1) : s[j] # s[i]}
      nth(k) == CHOOSE i \in idx : Cardinality({x \in idx : x < i}) = k - 1
  IN [k \in 1..Cardinality(idx) |-> s[nth(k)]]

Occurrences(s, x) == Cardinality({i \in 1..Len(s) : s[i] = x})

\* Object.keys of a word-keyed object filled from the words s: assigning to
\* "__proto__" adds no key
ObjectKeys(s) ==
  LET own(x) == x # "__proto__"
  IN FirstSeen(SelectSeq(s, own))

\* lines 58-76.  wordCount[word] || 0 reads an inherited property for a word
\* of InheritedKeys, the count becomes a string and the frequency NaN.
calculateTF(t) ==
  LET words == tokenizeWords(t)
      terms == SelectSeq(words, IsTerm)
  IN [x \in Range(ObjectKeys(terms)) |->
        IF x \in InheritedKeys THEN NaN
        ELSE (Occurrences(terms, x) * KScale) \div Len(words)]

\* lines 84-91: the number of documents that hold each term.
\* wordDocs[word] || 0 reads an inherited property for a word of
\* InheritedKeys, and the count becomes a string.
wordDocs(docs) ==
  LET terms(d) == SelectSeq(tokenizeWords(docs[d]), IsTerm)
      all == UNION {Range(ObjectKeys(terms(d))) : d \in 1..Len(docs)}
  IN [x \in all |->
        IF x \in InheritedKeys THEN NaN
        ELSE Cardinality({d \in 1..Len(docs) : x \in Range(terms(d))})]

\* lines 79-101: log10((totalDocs + 1) / (wordDocs[word] + 1)) + 1
calculateIDF(docs) ==
  [x \in DOMAIN wordDocs(docs) |->
     IF wordDocs(docs)[x] = NaN THEN NaN
     ELSE Log10Table[Len(docs) + 1] - Log10Table[wordDocs(docs)[x] + 1] + KScale]

\* lines 104-112: tf[word] * (idf[word] || 1)
calculateTFIDF(tf, idf) ==
  [x \in DOMAIN tf |->
     Times(tf[x], IF x \in DOMAIN idf /\ idf[x] # NaN /\ idf[x] # 0
                  THEN idf[x] ELSE KScale)]

\* lines 115-125: the n-grams of the terms with their counts, in key order
extractPhrases(t, n) ==
  LET words == SelectSeq(tokenizeWords(t), IsTerm)
      grams == [i \in 1..(Len(words) - n + 1) |-> SubSeq(words, i, i + n - 1)]
      keys == FirstSeen(grams)
  IN [k \in 1..Len(keys) |-> [phrase |-> keys[k], freq |-> Occurrences(grams, keys[k])]]

ScoresOf(list) == [i \in 1..Len(list) |-> list[i].score]

\* list.sort((a, b) => b.score - a.score): every order the sort may produce
SortedByScore(list) ==
  {[p \in 1..Len(list) |-> list[r[p]]] : r \in SortByScore(ScoresOf(list))}

\* list.slice(0, c); a negative c counts from the end of the list
Slice(list, c) ==
  SubSeq(list, 1, IF c < 0 THEN Len(list) + c
                  ELSE IF c < Len(list) THEN c ELSE Len(list))

\* lines 1175-1179: every score divided by the largest
Normalized(list) ==
  [i \in 1..Len(list) |->
     [keyword |-> list[i].keyword,
      score |-> Divide(list[i].score, MathMax(ScoresOf(list)))]]

\* lines 1119-1136: the results the call may return
extractWithStandardTFIDF(t, docs, c) ==
  LET tfidf == calculateTFIDF(calculateTF(t), calculateIDF(docs))
      keys == ObjectKeys(SelectSeq(tokenizeWords(t), IsTerm))
      entries == [k \in 1..Len(keys) |-> [keyword |-> <<keys[k]>>, score |-> tfidf[keys[k]]]]
  IN {Slice(s, c) : s \in SortedByScore(entries)}

\* lines 1148-1153 and 1155-1164: the phrases that occur more than once and
\* neither start nor end with a stopword, at freq / documents * 1.2 or 1.3
PhraseKeywords(t, docs, n, tenths) ==
  LET keep(e) == /\ e.freq > 1
                 /\ e.phrase[1] \notin STOPWORDS
                 /\ e.phrase[Len(e.phrase)] \notin STOPWORDS
      kept == SelectSeq(extractPhrases(t, n), keep)
  IN [k \in 1..Len(kept) |->
        [keyword |-> kept[k].phrase,
         score |-> (kept[k].freq * tenths * KScale) \div (10 * Len(docs))]]

\* lines 1139-1180
extractWithEnhancedTFIDF(t, docs, c) ==
  UNION {
    LET allKeywords == tfidfKeywords \o PhraseKeywords(t, docs, 2, 12)
                                     \o PhraseKeywords(t, docs, 3, 13)
    IN {Normalized(Slice(s, c)) : s \in SortedByScore(allKeywords)}
    : tfidfKeywords \in extractWithStandardTFIDF(t, docs, CeilDiv(c * 15, 10))}

\* lines 1198-1200: the terms of the first sentence of each document
TitleWords(docs) ==
  LET RECURSIVE flat(_)
      flat(d) == IF d > Len(docs) THEN <<>>
                 ELSE tokenizeWords(tokenizeSentences(docs[d])[1]) \o flat(d + 1)
  IN SelectSeq(flat(1), IsTerm)

\* lines 1203-1206 read at a key: truthy for a title word, and for every
\* inherited key
InTitles(docs, x) == x \in InheritedKeys \/ Occurrences(TitleWords(docs), x) > 0

\* lines 1210-1226
BoostFactor(docs, k) ==
  IF Len(k.keyword) = 1 /\ InTitles(docs, k.keyword[1])
    THEN IF k.keyword[1] \in InheritedKeys THEN NaN
         ELSE KScale + (4 * KScale * Occurrences(TitleWords(docs), k.keyword[1]))
                         \div (10 * Len(docs))
  ELSE IF Len(k.keyword) > 1
    THEN LET partsInTitles ==
               Cardinality({i \in 1..Len(k.keyword) : InTitles(docs, k.keyword[i])})
         IN KScale + (3 * KScale * partsInTitles) \div (10 * Len(k.keyword))
  ELSE KScale

\* no keyword found in another: nothing is discarded
IncludesNothing(hay, needle) == FALSE

\* seenKw.includes(kw.keyword), on words none of which contains another
Includes(hay, needle) ==
  \E i \in 0..(Len(hay) - Len(needle)) : SubSeq(hay, i + 1, i + Len(needle)) = needle

\* lines 1241-1258: keep a keyword unless one kept before includes it, and
\* stop at c
RECURSIVE Unique(_, _, _, _)
Unique(list, i, kept, c) ==
  IF i > Len(list) THEN kept
  ELSE IF \E s \in Range(kept) : Includes(s.keyword, list[i].keyword)
         THEN Unique(list, i + 1, kept, c)
       ELSE IF Len(kept) + 1 >= c THEN Append(kept, list[i])
       ELSE Unique(list, i + 1, Append(kept, list[i]), c)

\* lines 1261-1265: Math.min(1, score / maxScore)
NormalizedCapped(list) ==
  [i \in 1..Len(list) |->
     [keyword |-> list[i].keyword,
      score |-> LET q == Divide(list[i].score, MathMax(ScoresOf(list)))
                IN IF q # NaN /\ q > KScale THEN KScale ELSE q]]

\* lines 1183-1266
extractWithSimulatedBERT(t, docs, c) ==
  UNION {
    LET multi(k) == Len(k.keyword) > 1
        candidates == tfidfKeywords \o SelectSeq(enhanced, multi)
        boostedKeywords ==
          [i \in 1..Len(candidates) |->
             [keyword |-> candidates[i].keyword,
              score |-> Times(candidates[i].score, BoostFactor(docs, candidates[i]))]]
    IN {NormalizedCapped(Unique(s, 1, <<>>, c)) : s \in SortedByScore(boostedKeywords)}
    : tfidfKeywords \in extractWithStandardTFIDF(t, docs, CeilDiv(c * 12, 10)),
      enhanced \in extractWithEnhancedTFIDF(t, docs, CeilDiv(c * 8, 10))}

\* the texts of n words
KwTexts(n) ==
  {[w |-> ws, g |-> gs] : ws \in [1..n -> KwWords], gs \in [1..(n - 1) -> Gaps]}

\* the extractor's variables while another operation is modelled
KwIdle ==
  /\ kpc = "idle"
  /\ kwText = [w |-> <<>>, g |-> <<>>]
  /\ kwCount = 1
  /\ kwMethod = "standard_tfidf"
  /\ keywords = <<>>

\* line 1065: a call with request.count among counts
KwCall(counts) ==
  /\ kpc = "call"
  /\ \/ kwText \in ExtraTexts
     \/ \E n \in 0..MaxWords :
          /\ kwText \in KwTexts(n)
          /\ Range(kwText.w) \cap InheritedKeys # {} => n <= MaxNaNWords
  /\ kwCount \in counts
  /\ kwMethod \in Methods
  /\ keywords = <<>>

KwInit == KwCall(1..MaxCount)

\* lines 1066-1068: the blank text is refused
KwReject ==
  /\ kpc = "call"
  /\ Len(kwText.w) = 0
  /\ kpc' = "failed"
  /\ UNCHANGED <<kwText, kwCount, kwMethod, keywords>>
  /\ UNCHANGED <<sumVars, cluVars, recVars, funVars>>

\* lines 1105-1107
KwStandard ==
  /\ kpc = "call"
  /\ Len(kwText.w) > 0
  /\ kwMethod = "standard_tfidf"
  /\ keywords' \in extractWithStandardTFIDF(kwText, Documents(kwText), kwCount)
  /\ kpc' = "done"
  /\ UNCHANGED <<kwText, kwCount, kwMethod>>
  /\ UNCHANGED <<sumVars, cluVars, recVars, funVars>>

\* lines 1098-1100
KwEnhanced ==
  /\ kpc = "call"
  /\ Len(kwText.w) > 0
  /\ kwMethod = "enhanced_tfidf"
  /\ keywords' \in extractWithEnhancedTFIDF(kwText, Documents(kwText), kwCount)
  /\ kpc' = "done"
  /\ UNCHANGED <<kwText, kwCount, kwMethod>>
  /\ UNCHANGED <<sumVars, cluVars, recVars, funVars>>

\* lines 1101-1104
KwBert ==
  /\ kpc = "call"
  /\ Len(kwText.w) > 0
  /\ kwMethod = "bert_based"
  /\ keywords' \in extractWithSimulatedBERT(kwText, Documents(kwText), kwCount)
  /\ kpc' = "done"
  /\ UNCHANGED <<kwText, kwCount, kwMethod>>
  /\ UNCHANGED <<sumVars, cluVars, recVars, funVars>>

KwNext ==
  \/ KwReject
  \/ KwStandard
  \/ KwEnhanced
  \/ KwBert

(***************************************************************************)
(* The recommender: recommendAlgorithm, lines 1270-1510.  Raw scores are   *)
(* held in halves (3 is 6, 1.5 is 3, 0.5 is 1), normalized scores in       *)
(* ten-thousandths.  The suggested parameters and the explanation of the   *)
(* response are not modelled.                                              *)
(***************************************************************************)
\* the longest request.specialRequirements
MaxRequirements == 2

\* lines 1275-1373: the profiles, in the order of the table
algorithms == <<
  [name |-> "enhanced_extractive_tfidf", taskTypes |-> {"summarization"},
   resourceRequirements |-> "low", quality |-> "medium", speed |-> "high",
   specialFeatures |-> {"copyright-friendly", "extractive", "local-processing"}],
  [name |-> "bert_extractive", taskTypes |-> {"summarization"},
   resourceRequirements |-> "medium", quality |-> "high", speed |-> "medium",
   specialFeatures |-> {"contextual-understanding", "extractive"}],
  [name |-> "bart_abstractive", taskTypes |-> {"summarization"},
   resourceRequirements |-> "high", quality |-> "very high", speed |-> "low",
   specialFeatures |-> {"paraphrasing", "abstractive", "contextual-understanding"}],
  [name |-> "statistical_mt", taskTypes |-> {"translation"},
   resourceRequirements |-> "low", quality |-> "medium", speed |-> "high",
   specialFeatures |-> {"local-processing"}],
  [name |-> "neural_transformer", taskTypes |-> {"translation"},
   resourceRequirements |-> "medium", quality |-> "high", speed |-> "medium",
   specialFeatures |-> {"contextual-understanding"}],
  [name |-> "enhanced_template", taskTypes |-> {"content_generation"},
   resourceRequirements |-> "low", quality |-> "medium", speed |-> "very high",
   specialFeatures |-> {"local-processing", "copyright-friendly"}],
  [name |-> "fine_tuned_gpt", taskTypes |-> {"content_generation"},
   resourceRequirements |-> "high", quality |-> "very high", speed |-> "low",
   specialFeatures |-> {"creative", "contextual-understanding", "coherent"}],
  [name |-> "open_source_llm", taskTypes |-> {"content_generation"},
   resourceRequirements |-> "high", quality |-> "high", speed |-> "medium",
   specialFeatures |-> {"creative", "configurable"}],
  [name |-> "enhanced_tfidf", taskTypes |-> {"keyword_extraction"},
   resourceRequirements |-> "very low", quality |-> "medium", speed |-> "very high",
   specialFeatures |-> {"local-processing", "domain-agnostic"}],
  [name |-> "bert_keyword", taskTypes |-> {"keyword_extraction"},
   resourceRequirements |-> "medium", quality |-> "high", speed |-> "medium",
   specialFeatures |-> {"contextual-understanding", "semantic-relationships"}] >>

\* the four task types of the table, and one that no profile serves
TaskTypes ==
  {"summarization", "translation", "content_generation", "keyword_extraction",
   "sentiment_analysis"}

\* on both sides of the thresholds of lines 1401 and 1404, and a long text
TextLengths == {999, 1000, 5000, 5001, 6000}

\* request.contentDomain: left out, the empty string, a domain
ContentDomains == {"absent", "", "medical"}

LanguageComplexities == {"absent", "simple", "moderate", "complex"}

PriorityFactors == {"speed", "quality", "balanced"}

Requirements == {"local_processing", "Contextual-Understanding", "creative", "offline"}

\* the underscores replaced, the case left as it is
FeatureNameCased(req) ==
  CASE req = "local_processing" -> "local-processing"
    [] OTHER -> req

\* line 1428: req.toLowerCase().replace(/_/g, '-')
FeatureName(req) ==
  CASE req = "local_processing" -> "local-processing"
    [] req = "Contextual-Understanding" -> "contextual-understanding"
    [] OTHER -> req

\* lines 1395-1396, in halves
TierScore(tier) ==
  CASE tier = "very high" -> 4
    [] tier = "high" -> 3
    [] tier = "medium" -> 2
    [] OTHER -> 1

\* lines 1386-1431: the score of a profile for a request, in halves
AlgorithmScore(algo, req) ==
  LET good == {"high", "very high"}
      priorityTerm ==
        IF req.priorityFactor = "speed" /\ algo.speed \in good THEN 6
        ELSE IF req.priorityFactor = "quality" /\ algo.quality \in good THEN 6
        ELSE IF req.priorityFactor = "balanced"
          THEN TierScore(algo.speed) + TierScore(algo.quality)
        ELSE 0
      lengthTerm ==
        IF req.textLength < 1000
          THEN (IF algo.resourceRequirements = "low" THEN 2 ELSE 0)
        ELSE IF req.textLength > 5000
          THEN (IF algo.resourceRequirements = "low" THEN 4 ELSE 0)
               + (IF algo.resourceRequirements = "medium" THEN 2 ELSE 0)
        ELSE 0
      complexityTerm ==
        IF req.languageComplexity = "complex" /\ algo.quality \in good THEN 3
        ELSE IF req.languageComplexity = "simple" /\ algo.speed = "high" THEN 2
        ELSE 0
      domainTerm ==
        IF req.contentDomain \notin {"absent", ""}
           /\ "contextual-understanding" \in algo.specialFeatures
          THEN 2 ELSE 0
      matchingFeatures ==
        {i \in 1..Len(req.specialRequirements) :
           FeatureName(req.specialRequirements[i]) \in algo.specialFeatures}
  IN priorityTerm + lengthTerm + complexityTerm + domainTerm + 2 * Cardinality(matchingFeatures)

\* the table order kept
RankedAsListed(list) == {list}

\* line 1442: scoredAlgorithms.sort((a, b) => b.score - a.score)
Ranked(list) == SortedByScore(list)

\* the score left as it is, in ten-thousandths
RawScore(s, maxScore) == (s * KScale) \div 2

\* line 1451: algo.score / maxScore
NormalizedScore(s, maxScore) == (s * KScale) \div maxScore

\* the requests with request.textLength among lengths
RequestsOf(lengths) ==
  [taskType : TaskTypes, textLength : lengths, contentDomain : ContentDomains,
   languageComplexity : LanguageComplexities, priorityFactor : PriorityFactors,
   specialRequirements : UNION {[1..n -> Requirements] : n \in 0..MaxRequirements}]

Requests == RequestsOf(TextLengths)

NoRecommendation ==
  [recommendedAlgorithm |-> "", confidence |-> 0, alternativeAlgorithms |-> <<>>,
   error |-> ""]

\* the recommender's variables while another operation is modelled
RecIdle ==
  /\ rpc = "idle"
  /\ request = [taskType |-> "summarization", textLength |-> 1000,
                contentDomain |-> "absent", languageComplexity |-> "absent",
                priorityFactor |-> "balanced", specialRequirements |-> <<>>]
  /\ compatibleAlgorithms = <<>>
  /\ scoredAlgorithms = <<>>
  /\ recommendation = NoRecommendation

\* line 1270: a call with the request among requests
RecCall(requests) ==
  /\ rpc = "start"
  /\ request \in requests
  /\ compatibleAlgorithms = <<>>
  /\ scoredAlgorithms = <<>>
  /\ recommendation = NoRecommendation

RecInit == RecCall(Requests)

\* lines 1376-1378
Compatible(req) ==
  LET serves(algo) == req.taskType \in algo.taskTypes
  IN SelectSeq(algorithms, serves)

\* lines 1376-1382, some profile serves the task type
RecFilter ==
  /\ rpc = "start"
  /\ Len(Compatible(request)) > 0
  /\ compatibleAlgorithms' = Compatible(request)
  /\ rpc' = "score"
  /\ UNCHANGED <<request, scoredAlgorithms, recommendation>>
  /\ UNCHANGED <<sumVars, cluVars, kwVars, funVars>>

\* line 1381: the message of the error thrown
NoCompatibleMessage(taskType) ==
  "No compatible algorithms found for task type: " \o taskType

\* line 1508: the message of the error the catch block throws
RecommendationFailed == "Failed to generate algorithm recommendation"

\* lines 1380-1382: no profile serves the task type, the error is thrown
\* inside the try block
RecNoCompatible ==
  /\ rpc = "start"
  /\ Len(Compatible(request)) = 0
  /\ recommendation' = [NoRecommendation EXCEPT
                          !.error = NoCompatibleMessage(request.taskType)]
  /\ rpc' = "thrown"
  /\ UNCHANGED <<request, compatibleAlgorithms, scoredAlgorithms>>
  /\ UNCHANGED <<sumVars, cluVars, kwVars, funVars>>

\* lines 1506-1509: the catch block logs the error and throws another in
\* its place
RecCatch ==
  /\ rpc = "thrown"
  /\ recommendation' = [recommendation EXCEPT !.error = RecommendationFailed]
  /\ rpc' = "failed"
  /\ UNCHANGED <<request, compatibleAlgorithms, scoredAlgorithms>>
  /\ UNCHANGED <<sumVars, cluVars, kwVars, funVars>>

\* lines 1385-1439
RecScore ==
  /\ rpc = "score"
  /\ scoredAlgorithms' =
       [i \in 1..Len(compatibleAlgorithms) |->
          [name |-> compatibleAlgorithms[i].name,
           score |-> AlgorithmScore(compatibleAlgorithms[i], request)]]
  /\ rpc' = "sort"
  /\ UNCHANGED <<request, compatibleAlgorithms, recommendation>>
  /\ UNCHANGED <<sumVars, cluVars, kwVars, funVars>>

\* line 1442
RecSort ==
  /\ rpc = "sort"
  /\ scoredAlgorithms' \in Ranked(scoredAlgorithms)
  /\ rpc' = "return"
  /\ UNCHANGED <<request, compatibleAlgorithms, recommendation>>
  /\ UNCHANGED <<sumVars, cluVars, kwVars, funVars>>

\* lines 1445-1452 and 1498-1504
RecReturn ==
  /\ rpc = "return"
  /\ LET maxScore == MathMax(ScoresOf(scoredAlgorithms))
         normalizedAlgorithms ==
           [i \in 1..Len(scoredAlgorithms) |->
              [name |-> scoredAlgorithms[i].name,
               score |-> NormalizedScore(scoredAlgorithms[i].score, maxScore)]]
         last == IF Len(normalizedAlgorithms) < 3 THEN Len(normalizedAlgorithms) ELSE 3
     IN recommendation' =
          [recommendedAlgorithm |-> scoredAlgorithms[1].name,
           confidence |-> normalizedAlgorithms[1].score,
           alternativeAlgorithms |-> SubSeq(normalizedAlgorithms, 2, last),
           error |-> ""]
  /\ rpc' = "done"
  /\ UNCHANGED <<request, compatibleAlgorithms, scoredAlgorithms>>
  /\ UNCHANGED <<sumVars, cluVars, kwVars, funVars>>

RecNext ==
  \/ RecFilter
  \/ RecNoCompatible
  \/ RecCatch
  \/ RecScore
  \/ RecSort
  \/ RecReturn

(***************************************************************************)
(* Calls of single functions.  A text is a sequence of characters: an      *)
(* upper-case letter, a lower-case letter, two sentence endings, a space   *)
(* and a newline.                                                          *)
(***************************************************************************)
\* the longest text
MaxChars == 5

Chars == {"A", "a", ".", "!", " ", "\n"}

\* \s
Whitespace == {" ", "\n"}

\* [A-Z]
UpperCase == {"A"}

\* [A-Za-z], and the characters of \w in a text of the model
Letters == {"A", "a"}

\* [.?!]
Endings == {".", "!"}

\* the first position from j on that holds no whitespace, Len(s) + 1 if none
SkipWhitespace(s, j) ==
  CHOOSE k \in j..(Len(s) + 1) :
    /\ k = Len(s) + 1 \/ s[k] \notin Whitespace
    /\ \A m \in j..(k - 1) : s[m] \in Whitespace

\* \b before the letter at position i
WordStart(s, i) == i = 1 \/ s[i - 1] \notin Letters

\* line 41: replace(/([.?!])\s*([A-Z])/g, "$1\n$2"), from position i on
RECURSIVE AddNewlines(_, _)
AddNewlines(s, i) ==
  IF i > Len(s) THEN <<>>
  ELSE LET j == SkipWhitespace(s, i + 1)
       IN IF s[i] \in Endings /\ j <= Len(s) /\ s[j] \in UpperCase
            THEN <<s[i], "\n", s[j]>> \o AddNewlines(s, j + 1)
          ELSE <<s[i]>> \o AddNewlines(s, i + 1)

\* line 42: replace(/(\b[A-Z]\.\s*)/g, "$1 "), from position i on
RECURSIVE SpaceInitials(_, _)
SpaceInitials(s, i) ==
  IF i > Len(s) THEN <<>>
  ELSE IF /\ s[i] \in UpperCase
          /\ WordStart(s, i)
          /\ i < Len(s)
          /\ s[i + 1] = "."
         THEN LET j == SkipWhitespace(s, i + 2)
              IN SubSeq(s, i, j - 1) \o <<" ">> \o SpaceInitials(s, j)
       ELSE <<s[i]>> \o SpaceInitials(s, i + 1)

\* line 43: replace(/(\b[A-Za-z]+\.)\s+(?=[A-Z])/g, "$1\n"), from position
\* i on
RECURSIVE BreakAbbreviations(_, _)
BreakAbbreviations(s, i) ==
  IF i > Len(s) THEN <<>>
  ELSE LET k == CHOOSE e \in i..(Len(s) + 1) :
                  /\ e = Len(s) + 1 \/ s[e] \notin Letters
                  /\ \A m \in i..(e - 1) : s[m] \in Letters
           j == SkipWhitespace(s, k + 1)
       IN IF /\ s[i] \in Letters
             /\ WordStart(s, i)
             /\ k <= Len(s)
             /\ s[k] = "."
             /\ j > k + 1
             /\ j <= Len(s)
             /\ s[j] \in UpperCase
            THEN SubSeq(s, i, k) \o <<"\n">> \o BreakAbbreviations(s, j)
          ELSE <<s[i]>> \o BreakAbbreviations(s, i + 1)

\* lines 39-43
Prepared(text) ==
  BreakAbbreviations(SpaceInitials(AddNewlines(text, 1), 1), 1)

\* line 46: split(/\n/)
SplitLines(s) ==
  LET breaks == {i \in 1..Len(s) : s[i] = "\n"}
      starts == {1} \cup {i + 1 : i \in breaks}
      first(k) == CHOOSE b \in starts : Cardinality({x \in starts : x < b}) = k - 1
      last(k) == IF k = Cardinality(starts) THEN Len(s) ELSE first(k + 1) - 2
  IN [k \in 1..Cardinality(starts) |-> SubSeq(s, first(k), last(k))]

\* every piece kept
AnyLine(piece) == TRUE

\* line 46: s.trim().length > 0
NonBlankLine(piece) == \E i \in 1..Len(piece) : piece[i] \notin Whitespace

\* lines 38-47, on a text of characters
SentencesOfText(text) == SelectSeq(SplitLines(Prepared(text)), NonBlankLine)

CharTexts(n) == [1..n -> Chars]

\* no call of a single function is modelled
FunIdle ==
  /\ fpc = "idle"
  /\ fname = ""
  /\ farg = <<>>
  /\ fresult = <<>>

TokenizeInit ==
  /\ fpc = "call"
  /\ fname = "tokenizeSentences"
  /\ \E n \in 0..MaxChars : farg \in CharTexts(n)
  /\ fresult = <<>>

\* lines 38-47
Tokenize ==
  /\ fpc = "call"
  /\ fname = "tokenizeSentences"
  /\ fresult' = SentencesOfText(farg)
  /\ fpc' = "done"
  /\ UNCHANGED <<fname, farg>>
  /\ UNCHANGED <<sumVars, cluVars, kwVars, recVars>>

\* the largest argument of calculateIDF, in documents
MaxDocuments == 2

\* documents of one word or two
IdfDocuments ==
  {[w |-> ws, g |-> [i \in 1..(Len(ws) - 1) |-> "space"]] :
     ws \in [1..1 -> KwWords] \cup [1..2 -> KwWords]}

IdfInit ==
  /\ fpc = "call"
  /\ fname = "calculateIDF"
  /\ \E n \in 1..MaxDocuments : farg \in [1..n -> IdfDocuments]
  /\ fresult = <<>>

\* lines 79-101
Idf ==
  /\ fpc = "call"
  /\ fname = "calculateIDF"
  /\ fresult' = [wordDocs |-> wordDocs(farg), idf |-> calculateIDF(farg)]
  /\ fpc' = "done"
  /\ UNCHANGED <<fname, farg>>
  /\ UNCHANGED <<sumVars, cluVars, kwVars, recVars>>

\* the most tokens, and the most matches of the pattern of line 360, of a
\* sentence
MaxTokens == 41

\* lines 360-363.  The pattern /\\s+/ of line 360 matches a backslash and
\* the letters s that follow it, so the pieces of the split are one more
\* than these matches, whatever the whitespace of the sentence.  In
\* thousandths.
lengthFactor(sentence) ==
  LET sentenceLength == sentence.matches + 1
  IN IF sentenceLength < 5 THEN 700
     ELSE IF sentenceLength > 40 THEN 800
     ELSE 1000

\* a sentence by the number of its whitespace-separated tokens and of the
\* matches of the pattern in it
LengthFactorInit ==
  /\ fpc = "call"
  /\ fname = "lengthFactor"
  /\ farg \in [tokens : 1..MaxTokens, matches : 0..MaxTokens]
  /\ fresult = <<>>

LengthFactor ==
  /\ fpc = "call"
  /\ fname = "lengthFactor"
  /\ fresult' = lengthFactor(farg)
  /\ fpc' = "done"
  /\ UNCHANGED <<fname, farg>>
  /\ UNCHANGED <<sumVars, cluVars, kwVars, recVars>>

\* the longest sentence whose vector cosineSimilarity is called on, in words
MaxVectorWords == 3

VectorWords == {"cat", "dog", "constructor"}

\* The pairs <<a, b>> of squared magnitudes up to 25 with a whole root r of
\* a * b for which the double Math.sqrt(a) * Math.sqrt(b) of line 182 is r.
\* For every other such pair the product misses r by a rounding error, and
\* r / (Math.sqrt(a) * Math.sqrt(b)) is 0.9999999999999998,
\* 0.9999999999999999 or 1.0000000000000002.
ExactRoots ==
  {<<1, 1>>, <<1, 4>>, <<1, 9>>, <<1, 16>>, <<1, 25>>, <<2, 18>>, <<4, 1>>,
   <<4, 4>>, <<4, 9>>, <<4, 16>>, <<4, 25>>, <<8, 18>>, <<9, 1>>, <<9, 4>>,
   <<9, 9>>, <<9, 16>>, <<9, 25>>, <<11, 11>>, <<14, 14>>, <<16, 1>>,
   <<16, 4>>, <<16, 9>>, <<16, 16>>, <<16, 25>>, <<17, 17>>, <<18, 2>>,
   <<18, 8>>, <<21, 21>>, <<22, 22>>, <<25, 1>>, <<25, 4>>, <<25, 9>>,
   <<25, 16>>, <<25, 25>>}

\* line 182: whether the double returned is 1
IsOne(sim) ==
  /\ sim.kind = "ratio"
  /\ sim.dot * sim.dot = sim.magA * sim.magB
  /\ <<sim.magA, sim.magB>> \in ExactRoots

\* whether two results are the same number (NaN is not the same as NaN)
SameNumber(x, y) ==
  \/ x.kind = "zero" /\ y.kind = "zero"
  \/ /\ x.kind = "ratio" /\ y.kind = "ratio"
     /\ x.dot = y.dot
     /\ \/ x.magA = y.magA /\ x.magB = y.magB
        \/ x.magA = y.magB /\ x.magB = y.magA

CosineInit ==
  /\ fpc = "call"
  /\ fname = "cosineSimilarity"
  /\ \E m, n \in 0..MaxVectorWords : farg \in [1..m -> VectorWords] \X [1..n -> VectorWords]
  /\ fresult = <<>>

\* lines 157-183, on the word vectors of two sentences: both ways round,
\* and the first with itself
Cosine ==
  /\ fpc = "call"
  /\ fname = "cosineSimilarity"
  /\ LET a == WordVector(farg[1])
         b == WordVector(farg[2])
     IN fresult' = [ab |-> cosineSimilarity(a, b),
                    ba |-> cosineSimilarity(b, a),
                    aa |-> cosineSimilarity(a, a)]
  /\ fpc' = "done"
  /\ UNCHANGED <<fname, farg>>
  /\ UNCHANGED <<sumVars, cluVars, kwVars, recVars>>

InitSum == SumInit /\ CluIdle /\ KwIdle /\ RecIdle /\ FunIdle

SpecSum == InitSum /\ [][SumNext]_vars

\* The summarizer on the texts whose ranking the language defines: no NaN
\* score, or equal numeric scores beside it.
SumInitDefinedOrder ==
  /\ SumInit
  /\ ConsistentComparator([i \in 1..Len(sentences) |->
                             FinalScore(sentences[i], weights[i])])

InitSumDefinedOrder == SumInitDefinedOrder /\ CluIdle /\ KwIdle /\ RecIdle /\ FunIdle

SpecSumDefinedOrder == InitSumDefinedOrder /\ [][SumNext]_vars

InitCluster == CluInit /\ SumIdle /\ KwIdle /\ RecIdle /\ FunIdle

SpecCluster == InitCluster /\ [][CluNext]_vars

InitKw == KwInit /\ SumIdle /\ CluIdle /\ RecIdle /\ FunIdle

SpecKw == InitKw /\ [][KwNext]_vars

InitRec == RecInit /\ SumIdle /\ CluIdle /\ KwIdle /\ FunIdle

SpecRec == InitRec /\ [][RecNext]_vars

\* one call of either text operation
InitTextCall == InitSum \/ InitKw

SpecTextCall == InitTextCall /\ [][SumNext \/ KwNext]_vars

\* request.count and request.textLength that are not positive
NotPositive == {-1, 0}

\* one call of extractKeywords or of recommendAlgorithm with such a number
InitNotPositive ==
  \/ KwCall(NotPositive) /\ SumIdle /\ CluIdle /\ RecIdle /\ FunIdle
  \/ RecCall(RequestsOf(NotPositive)) /\ SumIdle /\ CluIdle /\ KwIdle /\ FunIdle

SpecNotPositive == InitNotPositive /\ [][KwNext \/ RecNext]_vars

\* lines 301-395 of enhancedSummarize: the values it computes in the order
\* of the code, each with the names the expression computing it reads
assignments == <<
  [name |-> "sentences", reads |-> {"text"}],
  [name |-> "lengthRatio", reads |-> {"length"}],
  [name |-> "numSentences", reads |-> {"sentences", "lengthRatio"}],
  [name |-> "paragraphs", reads |-> {"text"}],
  [name |-> "documents", reads |-> {"paragraphs", "sentences"}],
  [name |-> "tfBM25", reads |-> {"text", "sentences"}],
  [name |-> "idf", reads |-> {"documents"}],
  [name |-> "tf", reads |-> {"text"}],
  [name |-> "tfidf", reads |-> {"tf", "idf"}],
  [name |-> "phrases", reads |-> {"text"}],
  [name |-> "similarityClusters", reads |-> {"sentences"}],
  [name |-> "keywordScores", reads |-> {"tfidf", "phrases", "documents"}],
  [name |-> "initialSentenceScores", reads |-> {"sentences", "keywordScores"}],
  [name |-> "positionAdjustedScores", reads |-> {"initialSentenceScores", "sentences"}],
  [name |-> "lengthAdjustedScores", reads |-> {"positionAdjustedScores", "sentences"}],
  [name |-> "topPhrases", reads |-> {"phrases"}],
  [name |-> "phraseBoostScores", reads |-> {"lengthAdjustedScores", "topPhrases", "sentences"}],
  [name |-> "scoredSentences", reads |-> {"sentences", "phraseBoostScores", "similarityClusters"}],
  [name |-> "rankedSentences", reads |-> {"scoredSentences"}],
  [name |-> "selectedSentences", reads |-> {"rankedSentences", "numSentences"}] >>

\* line 298: the fields of the request; fresult maps each name that has a
\* value to the names its value was computed from, farg counts the
\* assignments done
AssignInit ==
  /\ fpc = "call"
  /\ fname = "enhancedSummarize"
  /\ farg = 0
  /\ fresult = [n \in {"text", "length", "style"} |-> {}]

\* the next assignment of lines 301-395: its value comes from the names it
\* reads and from all that their values came from
Assign ==
  /\ fpc = "call"
  /\ fname = "enhancedSummarize"
  /\ LET a == assignments[farg + 1]
         from == a.reads \cup UNION {fresult[r] : r \in a.reads}
     IN fresult' = [n \in DOMAIN fresult \cup {a.name} |->
                      IF n = a.name THEN from ELSE fresult[n]]
  /\ farg' = farg + 1
  /\ fpc' = IF farg + 1 = Len(assignments) THEN "done" ELSE "call"
  /\ UNCHANGED fname
  /\ UNCHANGED <<sumVars, cluVars, kwVars, recVars>>

\* one call of a single function
InitFun ==
  /\ TokenizeInit \/ CosineInit \/ IdfInit \/ LengthFactorInit \/ AssignInit
  /\ SumIdle /\ CluIdle /\ KwIdle /\ RecIdle

SpecFun == InitFun /\ [][Tokenize \/ Cosine \/ Idf \/ LengthFactor \/ Assign]_vars

(***************************************************************************)
(* The claims.                                                             *)
(***************************************************************************)
Min(S) == CHOOSE x \in S : \A y \in S : x <= y

\* C1.  A summarize call that returns has selected exactly max(1, ceil(N*r))
\* sentences, r = 15/100, 30/100, 45/100 for short, medium, long, and no
\* sentence twice.  The count is stated as the least k >= 1 with 100k >= rN.
C1_SelectedCount ==
  pc = "done" =>
    LET n == Len(sentences)
        r == CASE length = "short" -> 15 [] length = "medium" -> 30
               [] length = "long" -> 45
        k == Len(summary)
    IN /\ k >= 1
       /\ 100 * k >= r * n
       /\ k = 1 \/ 100 * (k - 1) < r * n
       /\ \A p, q \in 1..k : p # q => summary[p].index # summary[q].index

\* a returned call on five sentences with length long: three selected
C1_Witness ==
  pc = "done" /\ Len(sentences) = 5 /\ length = "long" /\ Len(summary) = 3

\* C2.  The backfill loop terminates: it brings the selection up to the
\* target count and stops.  The loop body is deterministic and reads only
\* selectedSentences and rankedSentences, so the loop terminates exactly when
\* every iteration that runs adds a sentence: an iteration that finds
\* rankedSentences[selectedSentences.length] selected already leaves the state
\* as it was, and the loop repeats it for ever.
C2_BackfillTerminates ==
  (pc = "backfill" /\ BackfillCondition) =>
    nextSentence \notin Range(selectedSentences)

\* C3.  In the returned summary the selected sentences are in strictly
\* increasing original index, for every style.
C3_ReadingOrder ==
  pc = "done" =>
    \A p, q \in 1..Len(summary) : p < q => summary[p].index < summary[q].index

\* a returned summary of two sentences or more whose ranking put a later
\* sentence of the text first
C3_Witness ==
  /\ pc = "done"
  /\ Len(summary) >= 2
  /\ \E p, q \in 1..Len(rankedSentences) :
       /\ p < q
       /\ rankedSentences[p] > rankedSentences[q]
       /\ {rankedSentences[p], rankedSentences[q]} \subseteq
            {summary[i].index : i \in 1..Len(summary)}

\* C4.  In one step of the diversity pass, a sentence whose cluster has
\* contributed already is selected only if its score is >= 0.8, and a
\* sentence whose cluster has not contributed is selected while the target
\* count is not reached.
C4_StepRule ==
  (pc = "diversity" /\ cursor <= Len(rankedSentences)) =>
    LET s == rankedSentences[cursor]
        taken == selectedSentences' # selectedSentences
    IN /\ (taken /\ cluster[s] \in selectedClusters)
            => NumGeq(score[s], OverrideThreshold)
       /\ (cluster[s] \notin selectedClusters
             /\ Len(selectedSentences) < numSentences) => taken

C4_DiversityRule == [][C4_StepRule]_vars

\* C5.  clusterSimilarSentences returns one id per sentence, none is -1, and
\* the ids in use are exactly 0..k-1, with k = 0 only for an empty input.
C5_ClusterIds ==
  cpc = "done" =>
    LET ids == {clusters[i] : i \in 1..Len(clusters)}
        k == Cardinality(ids)
    IN /\ Len(clusters) = Len(csentences)
       /\ -1 \notin ids
       /\ ids = 0..(k - 1)
       /\ (k = 0) <=> (Len(csentences) = 0)

\* a result with two clusters or more, one of them with two members
C5_Witness ==
  /\ cpc = "done"
  /\ \E i, j, l \in 1..Len(clusters) :
       i < j /\ clusters[i] = clusters[j] /\ clusters[l] # clusters[i]

\* C6.  Sentence j is in the cluster of the lowest-index opener i < j with
\* similarity(i, j) > 0.5, and opens a cluster if there is none; an opener is
\* the lowest-index member of its cluster.
C6_IsOpener(j) == \A k \in 1..(j - 1) : clusters[k] # clusters[j]

C6_Similar(i, j) ==
  LET sim == calculateSentenceSimilarity(csentences[i], csentences[j])
  IN sim.kind = "ratio" /\ 4 * sim.dot * sim.dot > sim.magA * sim.magB

C6_OpenerDecides ==
  cpc = "done" =>
    \A j \in 1..Len(clusters) :
      LET cands == {i \in 1..(j - 1) : C6_IsOpener(i) /\ C6_Similar(i, j)}
      IN IF cands = {} THEN C6_IsOpener(j)
         ELSE clusters[j] = clusters[Min(cands)]

\* a cluster with two members besides its opener that are not similar to
\* each other
C6_Witness ==
  /\ cpc = "done"
  /\ \E o, a, b \in 1..Len(clusters) :
       /\ o < a /\ a < b
       /\ C6_IsOpener(o)
       /\ clusters[a] = clusters[o] /\ clusters[b] = clusters[o]
       /\ ~C6_Similar(a, b) /\ ~C6_Similar(b, a)

\* C7.  Whatever the non-blank text, the count and the method, extractKeywords
\* returns at most count keywords, and each score is greater than or equal to
\* the score after it.
C7_CountAndOrder ==
  kpc = "done" =>
    /\ Len(keywords) <= kwCount
    /\ \A i \in 1..(Len(keywords) - 1) :
         NumGeq(keywords[i].score, keywords[i + 1].score)

\* C8.  Whatever the method, a non-empty result of extractKeywords is
\* normalized by its maximum: the first score is exactly 1 and every score is
\* in [0, 1].
C8_Normalized ==
  (kpc = "done" /\ Len(keywords) > 0) =>
    /\ keywords[1].score = KScale
    /\ \A i \in 1..Len(keywords) :
         NumGeq(keywords[i].score, 0) /\ NumGeq(KScale, keywords[i].score)

\* the position of the profile of a name in the table
TableIndex(name) == CHOOSE i \in 1..Len(algorithms) : algorithms[i].name = name

\* C9.  The recommended algorithm serves the requested task type and no
\* compatible profile scores higher, nor as high from an earlier place of the
\* table; the alternatives are the entries at places 2 and 3 of the ranking by
\* descending score (as far as the ranking goes), in that order, and the
\* recommended algorithm is not among them.
C9_TopRanked ==
  rpc = "done" =>
    LET compatible == {i \in 1..Len(algorithms) :
                         request.taskType \in algorithms[i].taskTypes}
        sc(i) == AlgorithmScore(algorithms[i], request)
        place(i) == 1 + Cardinality({j \in compatible :
                                       sc(j) > sc(i) \/ (sc(j) = sc(i) /\ j < i)})
        rec == TableIndex(recommendation.recommendedAlgorithm)
        alt == recommendation.alternativeAlgorithms
    IN /\ rec \in compatible
       /\ \A j \in compatible : sc(j) <= sc(rec) /\ (sc(j) = sc(rec) => rec <= j)
       /\ Len(alt) = Min({2, Cardinality(compatible) - 1})
       /\ \A p \in 1..Len(alt) :
            /\ TableIndex(alt[p].name) \in compatible
            /\ place(TableIndex(alt[p].name)) = p + 1
            /\ alt[p].name # recommendation.recommendedAlgorithm

\* a tie for the top score that the table order resolves against a later
\* profile, which is the first of two alternatives
C9_Witness ==
  /\ rpc = "done"
  /\ Len(recommendation.alternativeAlgorithms) = 2
  /\ scoredAlgorithms[1].score = scoredAlgorithms[2].score
  /\ scoredAlgorithms[3].score < scoredAlgorithms[2].score
  /\ recommendation.alternativeAlgorithms[1].name = scoredAlgorithms[2].name
  /\ TableIndex(scoredAlgorithms[1].name) > TableIndex(scoredAlgorithms[3].name)

\* C10.  In a recommendation the confidence is in [0, 1], there are at most
\* two alternatives, and the score of each alternative is in [0, 1] and not
\* greater than the confidence.
C10_Bounds ==
  rpc = "done" =>
    LET alt == recommendation.alternativeAlgorithms
    IN /\ recommendation.confidence \in 0..KScale
       /\ Len(alt) <= 2
       /\ \A p \in 1..Len(alt) :
            alt[p].score \in 0..KScale /\ alt[p].score <= recommendation.confidence

\* two alternatives with different scores, the lower one 0
C10_Witness ==
  /\ rpc = "done"
  /\ Len(recommendation.alternativeAlgorithms) = 2
  /\ recommendation.alternativeAlgorithms[1].score < recommendation.confidence
  /\ recommendation.alternativeAlgorithms[1].score > 0
  /\ recommendation.alternativeAlgorithms[2].score = 0

\* C11.  A request for keyword_extraction with textLength 6000 and priority
\* speed is answered with enhanced_tfidf (and so not with bert_keyword),
\* whatever its contentDomain, languageComplexity and specialRequirements,
\* absent ones included.
C11_SpeedScenario ==
  (/\ rpc = "done"
   /\ request.taskType = "keyword_extraction"
   /\ request.textLength = 6000
   /\ request.priorityFactor = "speed")
    => recommendation.recommendedAlgorithm = "enhanced_tfidf"

\* C12.  extractKeywords on "data science data analysis data mining" with
\* count 2 and method standard_tfidf returns "data" first, with score 1.0.
C12_DataScenario ==
  (/\ kpc = "done"
   /\ kwText = ScenarioText
   /\ kwCount = 2
   /\ kwMethod = "standard_tfidf")
    => (/\ Len(keywords) > 0
        /\ keywords[1].keyword = <<"data">>
        /\ keywords[1].score = KScale)

\* C13.  Clustering "I love cats.", "I love cats very much.", "The stock
\* market fell." gives the cluster IDs 0, 0, 1.
C13_CatsScenario ==
  (cpc = "done" /\ csentences = ClusterScenario) => clusters = <<0, 0, 1>>

\* the scenario clustered, its second sentence having joined the first one's
\* cluster in the inner loop
C13_Witness ==
  /\ cpc = "done"
  /\ csentences = ClusterScenario
  /\ clusters[2] = clusters[1]
  /\ clusterCount = 2

\* C14.  When summarize returns, the sentence with the highest final score
\* (the earliest one among equal scores) is among the selected sentences, and
\* it is the only selected one when the target count is 1.
C14_TopSentenceSelected ==
  pc = "done" =>
    \A i \in 1..Len(sentences) :
      (/\ score[i] # NaN
       /\ \A j \in 1..Len(sentences) :
            score[j] # NaN =>
              (score[j] < score[i] \/ (score[j] = score[i] /\ i <= j)))
        => (/\ \E p \in 1..Len(summary) : summary[p].index = i
            /\ numSentences = 1 => Len(summary) = 1)

\* C15.  summarizeText and extractKeywords refuse a blank text before any
\* processing: the call goes from its start to the failure, no sentence is
\* scored, ranked or selected, no keyword is computed, and no result exists.
C15_BlankRejected ==
  /\ (pc # "idle" /\ Len(sentences) = 0) =>
       (/\ pc \in {"start", "failed"}
        /\ numSentences = 0
        /\ score = <<>>
        /\ cluster = <<>>
        /\ rankedSentences = <<>>
        /\ selectedSentences = <<>>
        /\ summary = <<>>)
  /\ (kpc # "idle" /\ Len(kwText.w) = 0) =>
       (kpc \in {"call", "failed"} /\ keywords = <<>>)

\* an extractKeywords call on the blank text has failed
C15_Witness ==
  kpc = "failed" /\ Len(kwText.w) = 0 /\ keywords = <<>>

\* C16.  A recommendAlgorithm call whose task type no profile serves fails
\* with the error that names the no-compatible-algorithm condition, and
\* returns no recommendation.
C16_NoCompatibleError ==
  rpc = "failed" =>
    /\ recommendation.error = NoCompatibleMessage(request.taskType)
    /\ recommendation.recommendedAlgorithm = ""
    /\ recommendation.alternativeAlgorithms = <<>>

C18_SentencesNonEmpty ==
  (fpc = "done" /\ fname = "tokenizeSentences") =>
    LET visible(t) == \E i \in 1..Len(t) : t[i] \notin {" ", "\n"}
    IN /\ visible(farg) => Len(fresult) >= 1
       /\ \A k \in 1..Len(fresult) : visible(fresult[k])
       /\ ~visible(farg) => fresult = <<>>

\* a text of two sentences with whitespace around them has been split
C18_Witness ==
  /\ fpc = "done"
  /\ fname = "tokenizeSentences"
  /\ farg = <<" ", "a", ".", " ", "A">>
  /\ fresult = << <<" ", "a", ".">>, <<"A">> >>

\* C19.  cosineSimilarity gives the same number for (a, b) and (b, a), gives
\* 1 for a vector of non-zero magnitude and itself, and the clustering test
\* "similarity > 0.5" gives the same answer for (a, b) and (b, a).
C19_Symmetric ==
  (fpc = "done" /\ fname = "cosineSimilarity") =>
    /\ SameNumber(fresult.ab, fresult.ba)
    /\ Len(farg[1]) > 0 => IsOne(fresult.aa)
    /\ AboveThreshold(fresult.ab) <=> AboveThreshold(fresult.ba)

\* C20.  Every term of the map calculateIDF returns for a non-empty
\* document set has a document frequency between 1 and the number of
\* documents, and a value of at least 1, which is 1 exactly when the term
\* occurs in every document.
C20_IdfAtLeastOne ==
  (fpc = "done" /\ fname = "calculateIDF") =>
    \A x \in DOMAIN fresult.idf :
      /\ fresult.wordDocs[x] \in 1..Len(farg)
      /\ NumGeq(fresult.idf[x], KScale)
      /\ fresult.idf[x] = KScale <=> \A d \in 1..Len(farg) : x \in Range(farg[d].w)

\* C21.  The score of a sentence is multiplied by 0.7 if the sentence has
\* fewer than 5 whitespace-separated tokens, by 0.8 if it has more than 40,
\* and by 1.0 otherwise.
C21_LengthPenalty ==
  (fpc = "done" /\ fname = "lengthFactor") =>
    fresult = IF farg.tokens < 5 THEN 700
              ELSE IF farg.tokens > 40 THEN 800
              ELSE 1000

\* C22.  Backfill takes sentences in rank order: a sentence that backfill
\* adds is ranked above every sentence that is left unselected.
C22_BackfillInRankOrder ==
  [][(pc = "backfill" /\ selectedSentences' # selectedSentences /\ pc' = "backfill") =>
       \A p, q \in 1..Len(rankedSentences) :
         (/\ rankedSentences[p] = selectedSentences'[Len(selectedSentences')]
          /\ rankedSentences[q] \notin Range(selectedSentences'))
           => p < q]_vars

\* C23.  Once a sentence has a cluster id, no later step changes the id,
\* compares the sentence with a later opener, or makes it an opener: the
\* loops pass over it.
C23_AssignedIsFinal ==
  [][/\ \A k \in 1..Len(clusters) : clusters[k] # -1 => clusters'[k] = clusters[k]
     /\ (cpc = "inner" /\ cj <= Len(csentences) /\ clusters[cj] # -1) =>
          (cj' = cj + 1 /\ clusters' = clusters /\ cpc' = "inner")
     /\ (cpc = "outer" /\ ci <= Len(csentences) /\ clusters[ci] # -1) =>
          (ci' = ci + 1 /\ clusters' = clusters /\ cpc' = "outer")]_vars

\* the inner loop of a later opener has passed over a sentence that an
\* earlier opener took, and has left its id
C23_Witness ==
  /\ cpc = "inner"
  /\ cj > ci + 1
  /\ clusters[cj - 1] # -1
  /\ clusters[cj - 1] < clusterCount
  /\ AboveThreshold(calculateSentenceSimilarity(csentences[ci], csentences[cj - 1]))

C25_LongerPreferred ==
  (kpc = "done" /\ kwMethod = "bert_based") =>
    \A i, j \in 1..Len(keywords) :
      Len(keywords[i].keyword) < Len(keywords[j].keyword) =>
        \A p \in 0..(Len(keywords[j].keyword) - Len(keywords[i].keyword)) :
          SubSeq(keywords[j].keyword, p + 1, p + Len(keywords[i].keyword))
            # keywords[i].keyword

\* the tiers on the scale low 0.5, medium 1, high 1.5, very high 2, in halves
C26_Scale == [t \in {"low", "medium", "high", "very high"} |->
                CASE t = "low" -> 1 [] t = "medium" -> 2 [] t = "high" -> 3
                  [] OTHER -> 4]

\* a requirement with its underscores replaced by hyphens
C26_Hyphenated(req) ==
  IF req = "local_processing" THEN "local-processing" ELSE req

\* a requirement in lower case with its underscores replaced by hyphens
C26_LowerHyphenated(req) ==
  IF req = "Contextual-Understanding" THEN "contextual-understanding"
  ELSE C26_Hyphenated(req)

\* the sum of the five terms for a profile and a request, in halves, with
\* the requirements written as Written gives them
C26_Sum(algo, req, Written(_)) ==
  LET high == {"high", "very high"}
      priority ==
        CASE req.priorityFactor = "speed" -> IF algo.speed \in high THEN 6 ELSE 0
          [] req.priorityFactor = "quality" -> IF algo.quality \in high THEN 6 ELSE 0
          [] req.priorityFactor = "balanced" ->
               C26_Scale[algo.speed] + C26_Scale[algo.quality]
      textTerm ==
        CASE req.textLength < 1000 /\ algo.resourceRequirements = "low" -> 2
          [] req.textLength > 5000 /\ algo.resourceRequirements = "low" -> 4
          [] req.textLength > 5000 /\ algo.resourceRequirements = "medium" -> 2
          [] OTHER -> 0
      complexity ==
        CASE req.languageComplexity = "complex" /\ algo.quality \in high -> 3
          [] req.languageComplexity = "simple" /\ algo.speed = "high" -> 2
          [] OTHER -> 0
      domain ==
        IF /\ req.contentDomain \notin {"absent", ""}
           /\ "contextual-understanding" \in algo.specialFeatures
          THEN 2 ELSE 0
      RECURSIVE requirements(_)
      requirements(k) ==
        IF k = 0 THEN 0
        ELSE requirements(k - 1)
             + (IF Written(req.specialRequirements[k]) \in algo.specialFeatures
                  THEN 2 ELSE 0)
  IN priority + textTerm + complexity + domain
     + requirements(Len(req.specialRequirements))

\* C26. For every compatible profile the score is the sum of the priority
\* term, the text-length term, the complexity term, +1 for a content domain
\* with the contextual-understanding tag, and +1 for each requested special
\* requirement that, after underscores are replaced by hyphens, is in the
\* profile's feature list.
C26_ScoreAsStated ==
  rpc = "sort" =>
    \A i \in 1..Len(compatibleAlgorithms) :
      scoredAlgorithms[i].score
        = C26_Sum(compatibleAlgorithms[i], request, C26_Hyphenated)

\* C26, amended. The same sum, where a special requirement counts if it is
\* in the profile's feature list after it is put in lower case and its
\* underscores are replaced by hyphens.
C26_ScoreFormula ==
  rpc = "sort" =>
    /\ Len(scoredAlgorithms) = Len(compatibleAlgorithms)
    /\ \A i \in 1..Len(compatibleAlgorithms) :
         /\ scoredAlgorithms[i].name = compatibleAlgorithms[i].name
         /\ scoredAlgorithms[i].score
              = C26_Sum(compatibleAlgorithms[i], request, C26_LowerHyphenated)

\* a request with every term at work: bert_extractive scores 2.5 + 1 + 1.5
\* + 1 + 1 = 7
C26_Witness ==
  /\ rpc = "sort"
  /\ request = [taskType |-> "summarization", textLength |-> 5001,
                contentDomain |-> "medical", languageComplexity |-> "complex",
                priorityFactor |-> "balanced",
                specialRequirements |-> <<"Contextual-Understanding", "local_processing">>]
  /\ scoredAlgorithms[2] = [name |-> "bert_extractive", score |-> 14]

\* C27. The per-token weights from which the sentence scores are summed
\* incorporate the BM25+ term weights: the weights, the sentence scores, the
\* ranking and the selection are computed from tfBM25.
C27_ScoresUseBM25 ==
  (fpc = "done" /\ fname = "enhancedSummarize") =>
    \A n \in {"keywordScores", "initialSentenceScores", "phraseBoostScores",
              "rankedSentences", "selectedSentences"} :
      "tfBM25" \in fresult[n]

\* C28. tokenizeSentences places no sentence boundary after a single-letter
\* abbreviation or a short word with a period that whitespace and a
\* capitalized word follow: such a text is returned as one sentence.
C28_AbbreviationKept ==
  (/\ fpc = "done"
   /\ fname = "tokenizeSentences"
   /\ farg \in {<<"A", ".", " ", "A">>, <<"A", ".", " ", "A", "a">>,
                <<"A", "a", ".", " ", "A">>}) =>
    Len(fresult) = 1

\* C29. For a request with one of the four task types and priority speed,
\* quality or balanced, the call returns, the greatest score of the
\* compatible profiles is above zero and the confidence returned is 1.
C29_ConfidenceOne ==
  (/\ request.taskType \in {"summarization", "translation", "content_generation",
                            "keyword_extraction"}
   /\ request.priorityFactor \in {"speed", "quality", "balanced"}) =>
    /\ rpc \notin {"thrown", "failed"}
    /\ rpc \in {"sort", "return", "done"} =>
         \E i \in 1..Len(scoredAlgorithms) : scoredAlgorithms[i].score > 0
    /\ rpc = "done" =>
         /\ recommendation.error = ""
         /\ recommendation.confidence = KScale

\* a request for which one of the two compatible profiles scores nothing
C29_Witness ==
  /\ rpc = "done"
  /\ request = [taskType |-> "keyword_extraction", textLength |-> 1000,
                contentDomain |-> "", languageComplexity |-> "absent",
                priorityFactor |-> "quality", specialRequirements |-> <<>>]
  /\ scoredAlgorithms = <<[name |-> "bert_keyword", score |-> 6],
                          [name |-> "enhanced_tfidf", score |-> 0]>>
  /\ recommendation.recommendedAlgorithm = "bert_keyword"
  /\ recommendation.confidence = KScale

\* C30. When the diversity pass has ended with fewer selected sentences than
\* the target count, every cluster has a selected sentence and every
\* unselected sentence has a score below 0.8.
C30_SkippedForDiversityOnly ==
  (pc = "backfill" /\ Len(selectedSentences) < numSentences) =>
    /\ \A s \in Range(rankedSentences) :
         \E t \in Range(selectedSentences) : cluster[t] = cluster[s]
    /\ \A s \in Range(rankedSentences) \ Range(selectedSentences) :
         NumLt(score[s], OverrideThreshold)

\* the pass has ended one short of a target of three: the second sentence
\* selected is in the cluster of the first, with a score of 0.8, and the
\* others were skipped
C30_Witness ==
  /\ pc = "backfill"
  /\ cursor > Len(rankedSentences)
  /\ numSentences = 3
  /\ Len(selectedSentences) = 2
  /\ cluster[selectedSentences[1]] = cluster[selectedSentences[2]]
  /\ score[selectedSentences[2]] = OverrideThreshold
  /\ \A s \in Range(rankedSentences) \ Range(selectedSentences) :
       /\ cluster[s] = cluster[selectedSentences[1]]
       /\ score[s] = 500

====
